---- MODULE Spec2Model ----
(***************************************************************************)
(* The access-controlled resource store of the design repository: the     *)
(* tables and row-level-security policies of the two migrations, the      *)
(* storage bucket "job-files", and the client handlers that call them.    *)
(* A caller is an authenticated identity (auth.uid()) or the anonymous    *)
(* role.  Every storage-layer request is one atomic step; a client        *)
(* handler that awaits several requests is one step per request.          *)
(***************************************************************************)
EXTENDS Integers, Sequences, FiniteSets, TLC

\* ---------------------------------------------------------------- bounds
NumUsers == 2
MaxJobs == 1
MaxFiles == 2
MaxRows == 1
MaxComments == 1
MaxTemplates == 1
MaxVersions == 2
MaxSignUps == 2

\* ------------------------------------------------------------ identifiers
\* A UUID is modelled as <<kind, n>>: two UUIDs are equal only when they were
\* generated for the same row, so a job id never equals a user id.
Uuid(kind, n) == <<kind, n>>
NULL == <<"null", 0>>
ANON == <<"anon", 0>>

UserIds == {Uuid("user", n) : n \in 1..NumUsers}
Callers == UserIds \cup {ANON}

\* auth.uid() and auth.role() of a request
AuthUid(c) == IF c \in UserIds THEN c ELSE NULL
AuthRole(c) == IF c \in UserIds THEN "authenticated" ELSE "anon"

\* SQL equality: a comparison with NULL is not true
SqlEq(a, b) == a # NULL /\ b # NULL /\ a = b

Roles == {"user", "moderator", "admin"}
Statuses == {"pending", "in-progress", "completed"}

\* ------------------------------------------------- identity bootstrap
AdminEmails == {"eman.mukhtar@fastsigns.com", "chuck@curryhhi.com"}
Emails == <<"eman.mukhtar@fastsigns.com", "designer@fastsigns.com",
            "intern@fastsigns.com", "guest@example.com", "temp@example.com">>

\* ------------------------------------------------------------ object names
\* `${jobId}/${Date.now()}-${random}.${ext}`: the n-th generated file name
OriginalPath(jobId, n) == <<jobId, <<"name", n>>>>

\* `${fileId}/versions/${fileId}_v${n}.${fileExt}`
VersionPath(fileId, n, fileExt) ==
  <<fileId, <<"dir", "versions">>, <<"name", fileId, n, fileExt>>>>

\* storage.foldername(name): the segments of an object name before the last
FolderName(path) == SubSeq(path, 1, Len(path) - 1)

\* (storage.foldername(name))[1], NULL for a name without folder
LeadingSegment(path) == IF FolderName(path) = <<>> THEN NULL ELSE FolderName(path)[1]

\* a row of auth.users; the sign-up form of every second identity carries a
\* full_name in its metadata
AuthUser(n) ==
  [id |-> Uuid("user", n), email |-> Emails[n],
   meta_full_name |-> IF n % 2 = 1 THEN "Full Name" ELSE "absent"]

\* a function that leaves the role to the column default, 'user'
handle_new_user_default_role(new) ==
  [id |-> new.id,
   email |-> new.email,
   full_name |-> IF new.meta_full_name # "absent" THEN new.meta_full_name ELSE new.email,
   role |-> "user"]

\* handle_new_user(): the profile row inserted by the trigger on auth.users
handle_new_user(new) ==
  [id |-> new.id,
   email |-> new.email,
   full_name |-> IF new.meta_full_name # "absent" THEN new.meta_full_name ELSE new.email,
   role |-> IF new.email \in AdminEmails THEN "admin" ELSE "user"]

VARIABLES
  auth_users,         \* auth.users: the identities
  profiles,           \* public.profiles
  jobs,               \* public.jobs
  job_files,          \* public.job_files
  file_comments,      \* public.file_comments
  file_versions,      \* public.file_versions
  project_templates,  \* public.project_templates
  objects,            \* storage.objects of bucket job-files
  nextId,             \* gen_random_uuid(): the rows generated so far, per table
  last,               \* the request that produced the current state, and its outcome
  ui,                 \* per signed-in client: the React state of its components
                      \* (of the templates list, the ids of the rows it holds)
  session             \* one browser tab: what useAuth() returns, the route it
                      \* shows, and whether Index's effect has yet to run

vars == <<auth_users, profiles, jobs, job_files, file_comments, file_versions,
          project_templates, objects, nextId, last, ui, session>>

\* ------------------------------------------------------ request outcome
\* op: the request; caller: who issued it; target: the row id it named;
\* owner: the owner field of that row (before an update or delete, as stored
\* by an insert); affected: rows the storage layer changed; toast: what the
\* client handler showed; rows: ids a select returned
\* callerRole: the role in the caller's profile when the request was issued;
\* value: the new value the request carried; before: the value it replaced
RoleOf(c) ==
  IF \E p \in profiles : p.id = c
    THEN (CHOOSE p \in profiles : p.id = c).role
    ELSE "none"

Outcome(op, caller, target, owner, affected, toast, rows) ==
  [op |-> op, caller |-> caller, callerRole |-> RoleOf(caller), target |-> target,
   owner |-> owner, affected |-> affected, toast |-> toast, rows |-> rows,
   value |-> "none", before |-> "none", path |-> <<>>]

\* the same, for a request that carries a new value (a role, a status)
OutcomeOf(op, caller, target, owner, affected, toast, value) ==
  [Outcome(op, caller, target, owner, affected, toast, {}) EXCEPT !.value = value]

NoRequest ==
  [op |-> "none", caller |-> ANON, callerRole |-> "none", target |-> NULL,
   owner |-> NULL, affected |-> 0, toast |-> "none", rows |-> {}, value |-> "none",
   before |-> "none", path |-> <<>>]

RowsWithId(table, id) == {r \in table : r.id = id}

\* the toast of a handler written  if (error) throw error; toast(Success)
ToastOf(error) == IF error THEN "error" ELSE "success"

\* owner field of the row a request names, NULL when no such row
OwnerOf(table, id, field) ==
  IF RowsWithId(table, id) = {} THEN NULL
  ELSE (CHOOSE r \in RowsWithId(table, id) : TRUE)[field]

\* ================================================================ profiles
\* "Users can view all profiles"
ProfilesSelectPolicy(c, row) == AuthRole(c) = "authenticated"

\* "Users can update own profile": FOR UPDATE USING (auth.uid() = id)
ProfilesUpdatePolicy(c, row) == SqlEq(AuthUid(c), row.id)

\* a policy that lets an admin delete profiles
ProfilesDeletePolicyAdmin(c, row) == RoleOf(c) = "admin"

\* row level security is enabled and no DELETE policy exists for profiles
ProfilesDeletePolicy(c, row) == FALSE

\* AdminPanel's state, lines 28-29: users starts [] and loading true; fetches
\* counts the fetchUsers() calls that have not answered yet
MaxFetches == 2
AdminClosed == [open |-> FALSE, users |-> {}, loading |-> TRUE, fetches |-> 0]

\* the un-awaited fetchUsers() after a successful updateUserRole or deleteUser
\* (lines 77, 104); a caller with no AdminPanel mounted has no list to refresh
CallFetchUsers(c, ok) ==
  IF c \in UserIds /\ ok /\ ui[c].admin.open
    THEN [ui EXCEPT ![c].admin.fetches = @ + 1]
    ELSE ui

\* AdminPanel mounts in the client of c: the effect of lines 36-38
openAdminPanel(c) ==
  /\ ~ui[c].admin.open
  /\ ui' = [ui EXCEPT ![c].admin = [AdminClosed EXCEPT !.open = TRUE, !.fetches = 1]]
  /\ UNCHANGED <<session, auth_users, profiles, jobs, job_files, file_comments, file_versions,
                 project_templates, objects, nextId, last>>

\* the client of c leaves /admin
closeAdminPanel(c) ==
  /\ ui[c].admin.open
  /\ ui' = [ui EXCEPT ![c].admin = AdminClosed]
  /\ UNCHANGED <<session, auth_users, profiles, jobs, job_files, file_comments, file_versions,
                 project_templates, objects, nextId, last>>

\* AdminPanel.fetchUsers(), lines 40-58: one call in flight answers
fetchUsers(c, netError) ==
  LET data == {r \in profiles : ProfilesSelectPolicy(c, r)}
  IN /\ ui[c].admin.open /\ ui[c].admin.fetches > 0
     /\ ui' = [ui EXCEPT ![c].admin.users = IF netError THEN @ ELSE data,
                         ![c].admin.loading = FALSE,
                         ![c].admin.fetches = @ - 1]
     /\ last' = Outcome("fetchUsers", c, NULL, NULL, 0,
                         IF netError THEN "error" ELSE "none", {r.id : r \in data})
     /\ UNCHANGED <<session, auth_users, profiles, jobs, job_files, file_comments, file_versions,
                    project_templates, objects, nextId>>

\* what AdminPanel renders, lines 143-172: the isAdmin guard comes first
AdminPanelView(c) ==
  LET currentUserProfile == {u \in ui[c].admin.users : u.id = AuthUid(c)}
      isAdmin == \E u \in currentUserProfile : u.role = "admin"
  IN IF ~isAdmin THEN "Access Denied"
     ELSE IF ui[c].admin.loading THEN "loading"
     ELSE "User Management"

FullNames == {"Full Name", "New Name"}

\* AdminPanel.updateUserRole(userId, newRole), called by c
updateUserRole(c, userId, newRole, netError) ==
  LET matched == IF netError THEN {}
                 ELSE {r \in RowsWithId(profiles, userId) :
                         ProfilesSelectPolicy(c, r) /\ ProfilesUpdatePolicy(c, r)}
  IN /\ profiles' = (profiles \ matched) \cup
                       {[r EXCEPT !.role = newRole] : r \in matched}
     /\ last' = OutcomeOf("updateUserRole", c, userId, userId,
                           Cardinality(matched), ToastOf(netError), newRole)
     /\ ui' = CallFetchUsers(c, ~netError)
     /\ UNCHANGED <<session, auth_users, jobs, job_files, file_comments, file_versions,
                     project_templates, objects, nextId>>

\* Account.updateProfile(): the caller renames their own profile
updateProfile(c, full_name, netError) ==
  LET matched == IF netError THEN {}
                 ELSE {r \in RowsWithId(profiles, AuthUid(c)) :
                         ProfilesSelectPolicy(c, r) /\ ProfilesUpdatePolicy(c, r)}
  IN /\ profiles' = (profiles \ matched) \cup
                       {[r EXCEPT !.full_name = full_name] : r \in matched}
     /\ last' = Outcome("updateProfile", c, AuthUid(c), AuthUid(c),
                         Cardinality(matched), ToastOf(netError), {})
     /\ UNCHANGED <<session, auth_users, jobs, job_files, file_comments, file_versions,
                     project_templates, objects, nextId, ui>>

\* AdminPanel.deleteUser(userId), called by c
deleteUser(c, userId, netError) ==
  LET matched == IF netError THEN {}
                 ELSE {r \in RowsWithId(profiles, userId) :
                         ProfilesSelectPolicy(c, r) /\ ProfilesDeletePolicy(c, r)}
      gone == {r.id : r \in matched}
      \* ON DELETE CASCADE: jobs.created_by, job_files.uploaded_by, job_files.job_id
      jobsGone == {j \in jobs : j.created_by \in gone}
  IN /\ profiles' = profiles \ matched
     /\ jobs' = jobs \ jobsGone
     /\ job_files' = {f \in job_files : f.uploaded_by \notin gone
                                         /\ f.job_id \notin {j.id : j \in jobsGone}}
     /\ last' = Outcome("deleteUser", c, userId, userId,
                         Cardinality(matched), ToastOf(netError), {})
     /\ ui' = CallFetchUsers(c, ~netError)
     /\ UNCHANGED <<session, auth_users, file_comments, file_versions, project_templates, objects, nextId>>

\* ---------------------------------------------------------------- sign-up
\* the identities that sign up later, and what their sign-up forms carry
NewUserIds == {Uuid("user", n) : n \in (NumUsers + 1)..(NumUsers + MaxSignUps)}
SignUpEmails == {"chuck@curryhhi.com", "new.hire@fastsigns.com"}
MetaFullNames == {"Full Name", "absent"}

\* a trigger that inserts no profile
no_trigger(new) == {}

\* on_auth_user_created: AFTER INSERT ON auth.users FOR EACH ROW, the rows
\* handle_new_user() inserts into profiles
on_auth_user_created(new) == {handle_new_user(new)}

\* id UUID PRIMARY KEY REFERENCES auth.users(id): the rows may be inserted
ProfilesConstraints(rows, users) ==
  \A r \in rows : /\ RowsWithId(profiles, r.id) = {}
                  /\ \E u \in users : u.id = r.id

\* insert into auth.users of the identity id, made by the authentication
\* service when the identity authenticates for the first time.  The insert
\* and its trigger are one transaction: an id or email already present, or a
\* profile the constraints refuse, aborts both.
signUp(id, email, meta_full_name) ==
  LET new == [id |-> id, email |-> email, meta_full_name |-> meta_full_name]
      rows == on_auth_user_created(new)
      ok == /\ \A u \in auth_users : u.id # id /\ u.email # email
            /\ ProfilesConstraints(rows, auth_users \cup {new})
  IN /\ auth_users' = IF ok THEN auth_users \cup {new} ELSE auth_users
     /\ profiles' = IF ok THEN profiles \cup rows ELSE profiles
     /\ last' = OutcomeOf("signUp", ANON, id, id, IF ok THEN 1 ELSE 0, "none", email)
     /\ UNCHANGED <<session, jobs, job_files, file_comments, file_versions,
                    project_templates, objects, nextId, ui>>

\* ==================================================================== jobs
\* "Authenticated users can view all jobs"
JobsSelectPolicy(c, row) == AuthRole(c) = "authenticated"

\* "Authenticated users can create jobs": FOR INSERT WITH CHECK
\* (auth.role() = 'authenticated'); the new row's created_by is not examined
JobsInsertPolicy(c, row) == AuthRole(c) = "authenticated"

\* a policy that forgets the ownership test
JobsUpdatePolicyAnyCaller(c, row) == AuthRole(c) = "authenticated"

\* "Users can update jobs they created": FOR UPDATE USING (auth.uid() = created_by)
JobsUpdatePolicy(c, row) == SqlEq(AuthUid(c), row.created_by)

\* "Users can delete jobs they created": FOR DELETE USING (auth.uid() = created_by)
JobsDeletePolicy(c, row) == SqlEq(AuthUid(c), row.created_by)

\* a status column without CHECK
JobsConstraintsNoCheck(row) ==
  row.created_by = NULL \/ \E p \in profiles : p.id = row.created_by

\* created_by UUID REFERENCES public.profiles(id), nullable; status CHECK (...)
JobsConstraints(row) ==
  /\ row.created_by = NULL \/ \E p \in profiles : p.id = row.created_by
  /\ row.status \in Statuses

\* insert into jobs, issued by c with the row the client sent: the row stored,
\* or none when the policy or a constraint rejects it
InsertJob(c, row) ==
  IF JobsInsertPolicy(c, row) /\ JobsConstraints(row) THEN {row} ELSE {}

\* Dashboard.createJob, called by the client of c
createJob(c, netError) ==
  /\ nextId.jobs <= MaxJobs
  /\ LET row == [id |-> Uuid("job", nextId.jobs), created_by |-> AuthUid(c),
                 status |-> "pending"]
         stored == IF netError THEN {} ELSE InsertJob(c, row)
     IN /\ jobs' = jobs \cup stored
        /\ nextId' = IF stored = {} THEN nextId ELSE [nextId EXCEPT !.jobs = @ + 1]
        /\ last' = OutcomeOf("createJob", c, row.id, row.created_by,
                              Cardinality(stored), ToastOf(stored = {}), row.status)
  /\ UNCHANGED <<session, auth_users, profiles, job_files, file_comments, file_versions,
                 project_templates, objects, ui>>

\* an insert into jobs sent to the storage layer directly, with the owner and
\* status fields the client chose
insertJobRequest(c, created_by, status) ==
  /\ nextId.jobs <= MaxJobs
  /\ LET row == [id |-> Uuid("job", nextId.jobs), created_by |-> created_by,
                 status |-> status]
         stored == InsertJob(c, row)
     IN /\ jobs' = jobs \cup stored
        /\ nextId' = IF stored = {} THEN nextId ELSE [nextId EXCEPT !.jobs = @ + 1]
        /\ last' = OutcomeOf("jobs.insert", c, row.id, row.created_by,
                              Cardinality(stored), "none", row.status)
  /\ UNCHANGED <<session, auth_users, profiles, job_files, file_comments, file_versions,
                 project_templates, objects, ui>>

\* Dashboard.updateJob with editingJob.id = jobId: the patch carries name,
\* description, client_name, priority and status, never created_by.  The
\* storage layer returns no error when the policy filters every row out.
updateJob(c, jobId, status, netError) ==
  LET matched == IF netError THEN {}
                 ELSE {r \in RowsWithId(jobs, jobId) :
                         JobsSelectPolicy(c, r) /\ JobsUpdatePolicy(c, r)}
      checkFails == \E r \in matched : ~JobsConstraints([r EXCEPT !.status = status])
  IN /\ jobs' = IF checkFails THEN jobs
                ELSE (jobs \ matched) \cup {[r EXCEPT !.status = status] : r \in matched}
     /\ last' = [OutcomeOf("updateJob", c, jobId, OwnerOf(jobs, jobId, "created_by"),
                            IF checkFails THEN 0 ELSE Cardinality(matched),
                            ToastOf(netError \/ checkFails), status)
                 EXCEPT !.before = IF matched = {} THEN "none"
                                   ELSE (CHOOSE r \in matched : TRUE).status]
     /\ UNCHANGED <<session, auth_users, profiles, job_files, file_comments, file_versions,
                    project_templates, objects, nextId, ui>>

\* a job_id column that references nothing: the rows stay
JobFilesKept(gone) == job_files

\* job_files.job_id REFERENCES public.jobs(id) ON DELETE CASCADE: the rows of
\* job_files left when the jobs with the ids gone are deleted
JobFilesOnDeleteCascade(gone) == {f \in job_files : f.job_id \notin gone}

\* Dashboard.deleteJob(jobId)
deleteJob(c, jobId, netError) ==
  LET matched == IF netError THEN {}
                 ELSE {r \in RowsWithId(jobs, jobId) :
                         JobsSelectPolicy(c, r) /\ JobsDeletePolicy(c, r)}
  IN /\ jobs' = jobs \ matched
     /\ job_files' = JobFilesOnDeleteCascade({r.id : r \in matched})
     /\ last' = Outcome("deleteJob", c, jobId, OwnerOf(jobs, jobId, "created_by"),
                         Cardinality(matched), ToastOf(netError), {})
     /\ UNCHANGED <<session, auth_users, profiles, file_comments, file_versions, project_templates,
                    objects, nextId, ui>>

JobIds == {Uuid("job", n) : n \in 1..MaxJobs}

\* ========================================================== storage.objects
\* "Authenticated users can view job files"
ObjectsSelectPolicy(c, obj) == AuthRole(c) = "authenticated"

\* "Authenticated users can upload job files"
ObjectsInsertPolicy(c, obj) == AuthRole(c) = "authenticated"

\* "Users can delete their uploaded files":
\* auth.uid()::text = (storage.foldername(name))[1]
ObjectsDeletePolicy(c, obj) == SqlEq(AuthUid(c), LeadingSegment(obj.name))

ObjectsNamed(path) == {o \in objects : o.name = path}

\* storage.from('job-files').upload(path, file) by c: the object stored, or
\* none (an error) when the policy rejects it or the name is taken
UploadObject(c, path) ==
  LET obj == [name |-> path, owner |-> AuthUid(c)]
  IN IF ObjectsInsertPolicy(c, obj) /\ ObjectsNamed(path) = {} THEN {obj} ELSE {}

\* storage.from('job-files').remove([path]) by c: the objects removed; the
\* ones the DELETE policy hides are skipped and no error is returned
RemoveObjects(c, path) ==
  {o \in ObjectsNamed(path) : ObjectsSelectPolicy(c, o) /\ ObjectsDeletePolicy(c, o)}

\* ================================================================ job_files
\* "Authenticated users can view all job files"
FilesSelectPolicy(c, row) == AuthRole(c) = "authenticated"

\* "Authenticated users can upload job files"
FilesInsertPolicy(c, row) == AuthRole(c) = "authenticated"

\* a policy that lets every signed-in caller update
FilesUpdatePolicyAnyCaller(c, row) == AuthRole(c) = "authenticated"

\* "Users can update files they uploaded"
FilesUpdatePolicy(c, row) == SqlEq(AuthUid(c), row.uploaded_by)

\* "Users can delete files they uploaded"
FilesDeletePolicy(c, row) == SqlEq(AuthUid(c), row.uploaded_by)

\* job_id REFERENCES jobs(id), uploaded_by REFERENCES profiles(id), both nullable
FilesConstraints(row) ==
  /\ row.job_id = NULL \/ \E j \in jobs : j.id = row.job_id
  /\ row.uploaded_by = NULL \/ \E p \in profiles : p.id = row.uploaded_by

InsertFile(c, row) ==
  IF FilesInsertPolicy(c, row) /\ FilesConstraints(row) THEN {row} ELSE {}

FileIds == {Uuid("file", n) : n \in 1..MaxFiles}

\* the client that uploads, where one uploading client is modelled
Uploader == Uuid("user", 1)

\* no handler of the client is running
Idle == [name |-> "idle", pc |-> "idle", job |-> NULL, todo |-> 0,
         file |-> NULL, path |-> <<>>, versions |-> {}]

\* files still to be stored by the handleFileUpload calls in flight
Reserved == LET Sum[S \in SUBSET UserIds] ==
                  IF S = {} THEN 0
                  ELSE LET c == CHOOSE x \in S : TRUE
                       IN ui[c].op.todo + Sum[S \ {c}]
            IN Sum[UserIds]

\* an exit that leaves the flag and the file input as they are
ExitWithoutFinally(c) == [ui EXCEPT ![c].op = Idle]

\* handleFileUpload's finally block, lines 131-136: setUploading(false) and
\* fileInputRef.current.value = '', then the handler has returned
UploadFinally(c) == [ui EXCEPT ![c].uploading = FALSE, ![c].input = 0, ![c].op = Idle]

\* JobFiles.fetchFiles of the component mounted with jobId, by the client of c
fetchFiles(c, jobId, netError) ==
  LET data == {r \in job_files : r.job_id = jobId /\ FilesSelectPolicy(c, r)}
  IN /\ ui' = IF netError THEN ui ELSE [ui EXCEPT ![c].files = data]
     /\ last' = Outcome("fetchFiles", c, jobId, NULL, 0,
                         IF netError THEN "error" ELSE "none", {r.id : r \in data})
     /\ UNCHANGED <<session, auth_users, profiles, jobs, job_files, file_comments, file_versions,
                    project_templates, objects, nextId>>

\* JobFiles.handleFileUpload, lines 76-80: n files were selected
handleFileUploadStart(c, jobId, n) ==
  /\ ui[c].op.name = "idle"
  /\ jobId \in {j.id : j \in jobs}
  /\ n >= 1
  /\ nextId.objects + Reserved + n - 1 <= MaxFiles
  /\ ui' = [ui EXCEPT ![c].uploading = TRUE, ![c].input = n,
                      ![c].op = [Idle EXCEPT !.name = "handleFileUpload", !.pc = "upload",
                                             !.job = jobId, !.todo = n]]
  /\ last' = Outcome("handleFileUpload.start", c, jobId, NULL, 0, "none", {})
  /\ UNCHANGED <<session, auth_users, profiles, jobs, job_files, file_comments, file_versions,
                 project_templates, objects, nextId>>

\* lines 84-93: the blob of the next file is uploaded; an error ends the
\* handler in catch and finally
handleFileUploadPut(c, netError) ==
  /\ ui[c].op.name = "handleFileUpload" /\ ui[c].op.pc = "upload"
  /\ LET filePath == OriginalPath(ui[c].op.job, nextId.objects)
         stored == IF netError THEN {} ELSE UploadObject(c, filePath)
     IN /\ objects' = objects \cup stored
        /\ nextId' = [nextId EXCEPT !.objects = @ + 1]
        /\ ui' = IF stored = {}
                 THEN UploadFinally(c)
                 ELSE [ui EXCEPT ![c].op.pc = "insert", ![c].op.path = filePath]
        /\ last' = [Outcome(IF stored = {} THEN "handleFileUpload"
                                           ELSE "handleFileUpload.upload",
                            c, ui[c].op.job, AuthUid(c), Cardinality(stored),
                            IF stored = {} THEN "error" ELSE "none", {})
                    EXCEPT !.path = filePath]
  /\ UNCHANGED <<session, auth_users, profiles, jobs, job_files, file_comments, file_versions,
                 project_templates>>

\* lines 95-124: the metadata row of the uploaded file is inserted; after the
\* last file the handler toasts success and ends
handleFileUploadInsert(c, isPresentation, netError) ==
  /\ ui[c].op.name = "handleFileUpload" /\ ui[c].op.pc = "insert"
  /\ LET row == [id |-> Uuid("file", nextId.job_files), job_id |-> ui[c].op.job,
                 file_path |-> ui[c].op.path, is_presentation |-> isPresentation,
                 uploaded_by |-> AuthUid(c)]
         stored == IF netError THEN {} ELSE InsertFile(c, row)
         done == stored = {} \/ ui[c].op.todo = 1
     IN /\ job_files' = job_files \cup stored
        /\ nextId' = IF stored = {} THEN nextId ELSE [nextId EXCEPT !.job_files = @ + 1]
        /\ ui' = IF done
                 THEN UploadFinally(c)
                 ELSE [ui EXCEPT ![c].op.pc = "upload", ![c].op.todo = @ - 1,
                                 ![c].op.path = <<>>]
        /\ last' = [Outcome(IF done THEN "handleFileUpload" ELSE "handleFileUpload.insert",
                            c, row.id, row.uploaded_by, Cardinality(stored),
                            IF stored = {} THEN "error"
                            ELSE IF done THEN "success" ELSE "none", {})
                    EXCEPT !.path = row.file_path]
  /\ UNCHANGED <<session, auth_users, profiles, jobs, file_comments, file_versions, project_templates,
                 objects>>

\* the star button of a file card, lines 328-335 and 388-396: rendered for
\* every file of the list
OffersToggle(c, file) == TRUE

\* the trash button, lines 344-353 and 405-414: file.uploaded_by === user?.id
OffersDelete(c, file) == file.uploaded_by = AuthUid(c)

\* JobFiles.deleteFile(file), lines 169-172: the user pressed the trash button
\* of the file and confirmed the dialog
deleteFileStart(c, fileId) ==
  /\ ui[c].op.name = "idle"
  /\ \E file \in ui[c].files :
       /\ file.id = fileId
       /\ OffersDelete(c, file)
       /\ ui' = [ui EXCEPT ![c].op = [Idle EXCEPT !.name = "deleteFile",
                                                  !.pc = "remove", !.file = file]]
       /\ last' = [Outcome("deleteFile.start", c, file.id, file.uploaded_by, 0,
                            "none", {})
                   EXCEPT !.path = file.file_path]
  /\ UNCHANGED <<session, auth_users, profiles, jobs, job_files, file_comments, file_versions,
                 project_templates, objects, nextId>>

\* lines 173-178: the blob is removed from storage first
deleteFileRemove(c, netError) ==
  /\ ui[c].op.name = "deleteFile" /\ ui[c].op.pc = "remove"
  /\ LET file == ui[c].op.file
         removed == IF netError THEN {} ELSE RemoveObjects(c, file.file_path)
     IN /\ objects' = objects \ removed
        /\ ui' = IF netError THEN [ui EXCEPT ![c].op = Idle]
                 ELSE [ui EXCEPT ![c].op.pc = "delete"]
        /\ last' = [Outcome(IF netError THEN "deleteFile" ELSE "deleteFile.remove",
                            c, file.id, file.uploaded_by, Cardinality(removed),
                            IF netError THEN "error" ELSE "none", {})
                    EXCEPT !.path = file.file_path]
  /\ UNCHANGED <<session, auth_users, profiles, jobs, job_files, file_comments, file_versions,
                 project_templates, nextId>>

\* lines 180-200: then the metadata row is deleted and the handler returns
deleteFileDelete(c, netError) ==
  /\ ui[c].op.name = "deleteFile" /\ ui[c].op.pc = "delete"
  /\ LET file == ui[c].op.file
         matched == IF netError THEN {}
                    ELSE {r \in RowsWithId(job_files, file.id) :
                            FilesSelectPolicy(c, r) /\ FilesDeletePolicy(c, r)}
     IN /\ job_files' = job_files \ matched
        /\ ui' = [ui EXCEPT ![c].op = Idle]
        /\ last' = [Outcome("deleteFile", c, file.id, file.uploaded_by,
                            Cardinality(matched), ToastOf(netError), {})
                    EXCEPT !.path = file.file_path]
  /\ UNCHANGED <<session, auth_users, profiles, jobs, file_comments, file_versions, project_templates,
                 objects, nextId>>

\* JobFiles.downloadFile(file), file being the row with id fileId of the list
\* the client holds
downloadFile(c, fileId, netError) ==
  /\ \E file \in ui[c].files :
       /\ file.id = fileId
       /\ LET data == IF netError THEN {}
                      ELSE {o \in ObjectsNamed(file.file_path) : ObjectsSelectPolicy(c, o)}
          IN last' = [Outcome("downloadFile", c, file.id, file.uploaded_by,
                              Cardinality(data), ToastOf(data = {}), {})
                      EXCEPT !.path = file.file_path]
  /\ UNCHANGED <<session, auth_users, profiles, jobs, job_files, file_comments, file_versions,
                 project_templates, objects, nextId, ui>>

\* storage.from('job-files').download(path), sent by any caller for any name
downloadObjectRequest(c, path) ==
  LET data == {o \in ObjectsNamed(path) : ObjectsSelectPolicy(c, o)}
  IN /\ last' = [Outcome("objects.download", c, NULL, NULL, Cardinality(data),
                         "none", {})
                 EXCEPT !.path = path]
     /\ UNCHANGED <<session, auth_users, profiles, jobs, job_files, file_comments,
                    file_versions, project_templates, objects, nextId, ui>>

\* JobFiles.togglePresentation(file), file being the row with id fileId of the
\* list the client holds
togglePresentation(c, fileId, netError) ==
  /\ \E file \in ui[c].files :
       /\ file.id = fileId
       /\ LET matched == IF netError THEN {}
                         ELSE {r \in RowsWithId(job_files, file.id) :
                                 FilesSelectPolicy(c, r) /\ FilesUpdatePolicy(c, r)}
          IN /\ job_files' = (job_files \ matched) \cup
                               {[r EXCEPT !.is_presentation = ~file.is_presentation] :
                                  r \in matched}
             /\ last' = [Outcome("togglePresentation", c, file.id,
                                 OwnerOf(job_files, file.id, "uploaded_by"),
                                 Cardinality(matched), ToastOf(netError), {})
                         EXCEPT !.value = IF file.is_presentation THEN "removed from"
                                                                  ELSE "marked as"]
  /\ UNCHANGED <<session, auth_users, profiles, jobs, file_comments, file_versions,
                 project_templates, objects, nextId, ui>>

\* delete from job_files where id = ..., sent to the storage layer directly
deleteFileRequest(c, id) ==
  LET matched == {r \in RowsWithId(job_files, id) :
                    FilesSelectPolicy(c, r) /\ FilesDeletePolicy(c, r)}
  IN /\ job_files' = job_files \ matched
     /\ last' = Outcome("job_files.delete", c, id, OwnerOf(job_files, id, "uploaded_by"),
                         Cardinality(matched), "none", {})
     /\ UNCHANGED <<session, auth_users, profiles, jobs, file_comments, file_versions, project_templates,
                    objects, nextId, ui>>

\* an insert into job_files sent to the storage layer directly, with the owner
\* field the client chose; no blob is uploaded
insertFileRequest(c, job_id, uploaded_by, isPresentation) ==
  /\ nextId.job_files <= MaxRows
  /\ LET row == [id |-> Uuid("file", nextId.job_files), job_id |-> job_id,
                 file_path |-> OriginalPath(job_id, nextId.objects),
                 is_presentation |-> isPresentation, uploaded_by |-> uploaded_by]
         stored == InsertFile(c, row)
     IN /\ job_files' = job_files \cup stored
        /\ nextId' = IF stored = {} THEN nextId
                     ELSE [nextId EXCEPT !.job_files = @ + 1, !.objects = @ + 1]
        /\ last' = Outcome("job_files.insert", c, row.id, row.uploaded_by,
                            Cardinality(stored), "none", {})
  /\ UNCHANGED <<session, auth_users, profiles, jobs, file_comments, file_versions, project_templates,
                 objects, ui>>

\* update job_files set is_presentation = ... where id = ..., the request
\* togglePresentation sends, sent by any caller for any row
updateFileRequest(c, id, isPresentation) ==
  LET matched == {r \in RowsWithId(job_files, id) :
                    FilesSelectPolicy(c, r) /\ FilesUpdatePolicy(c, r)}
  IN /\ job_files' = (job_files \ matched) \cup
                       {[r EXCEPT !.is_presentation = isPresentation] : r \in matched}
     /\ last' = [Outcome("job_files.update", c, id,
                         OwnerOf(job_files, id, "uploaded_by"),
                         Cardinality(matched), "none", {})
                 EXCEPT !.value = IF isPresentation THEN "presentation" ELSE "other"]
     /\ UNCHANGED <<session, auth_users, profiles, jobs, file_comments, file_versions, project_templates,
                    objects, nextId, ui>>

\* ============================================================ file_comments
\* "Authenticated users can view all file comments"
CommentsSelectPolicy(c, row) == AuthRole(c) = "authenticated"

\* "Authenticated users can create file comments"
CommentsInsertPolicy(c, row) == AuthRole(c) = "authenticated"

\* "Users can update their own comments"
CommentsUpdatePolicy(c, row) == SqlEq(AuthUid(c), row.user_id)

\* "Users can delete their own comments"
CommentsDeletePolicy(c, row) == SqlEq(AuthUid(c), row.user_id)

\* file_id, user_id and comment are NOT NULL; neither references another table
CommentsConstraints(row) == row.file_id # NULL /\ row.user_id # NULL

InsertComment(c, row) ==
  IF CommentsInsertPolicy(c, row) /\ CommentsConstraints(row) THEN {row} ELSE {}

CommentIds == {Uuid("comment", n) : n \in 1..MaxComments}
CommentTexts == {"first draft", "edited"}

\* FileCollaboration.addComment of the component mounted with fileId
addComment(c, fileId, netError) ==
  /\ nextId.file_comments <= MaxComments
  /\ LET row == [id |-> Uuid("comment", nextId.file_comments), file_id |-> fileId,
                 user_id |-> AuthUid(c), comment |-> "first draft"]
         stored == IF netError THEN {} ELSE InsertComment(c, row)
     IN /\ file_comments' = file_comments \cup stored
        /\ nextId' = IF stored = {} THEN nextId
                     ELSE [nextId EXCEPT !.file_comments = @ + 1]
        /\ last' = Outcome("addComment", c, row.id, row.user_id,
                            Cardinality(stored), ToastOf(stored = {}), {})
  /\ UNCHANGED <<session, auth_users, profiles, jobs, job_files, file_versions, project_templates,
                 objects, ui>>

\* an insert into file_comments sent directly, with the user_id the client chose
insertCommentRequest(c, fileId, user_id) ==
  /\ nextId.file_comments <= MaxComments
  /\ LET row == [id |-> Uuid("comment", nextId.file_comments), file_id |-> fileId,
                 user_id |-> user_id, comment |-> "first draft"]
         stored == InsertComment(c, row)
     IN /\ file_comments' = file_comments \cup stored
        /\ nextId' = IF stored = {} THEN nextId
                     ELSE [nextId EXCEPT !.file_comments = @ + 1]
        /\ last' = Outcome("file_comments.insert", c, row.id, row.user_id,
                            Cardinality(stored), "none", {})
  /\ UNCHANGED <<session, auth_users, profiles, jobs, job_files, file_versions, project_templates,
                 objects, ui>>

\* update file_comments set comment = ... where id = ..., sent directly
updateCommentRequest(c, id, text) ==
  LET matched == {r \in RowsWithId(file_comments, id) :
                    CommentsSelectPolicy(c, r) /\ CommentsUpdatePolicy(c, r)}
  IN /\ file_comments' = (file_comments \ matched) \cup
                           {[r EXCEPT !.comment = text] : r \in matched}
     /\ last' = OutcomeOf("file_comments.update", c, id,
                           OwnerOf(file_comments, id, "user_id"),
                           Cardinality(matched), "none", text)
     /\ UNCHANGED <<session, auth_users, profiles, jobs, job_files, file_versions, project_templates,
                    objects, nextId, ui>>

\* delete from file_comments where id = ..., sent directly
deleteCommentRequest(c, id) ==
  LET matched == {r \in RowsWithId(file_comments, id) :
                    CommentsSelectPolicy(c, r) /\ CommentsDeletePolicy(c, r)}
  IN /\ file_comments' = file_comments \ matched
     /\ last' = Outcome("file_comments.delete", c, id,
                         OwnerOf(file_comments, id, "user_id"),
                         Cardinality(matched), "none", {})
     /\ UNCHANGED <<session, auth_users, profiles, jobs, job_files, file_versions, project_templates,
                    objects, nextId, ui>>

\* ============================================================ file_versions
\* "Authenticated users can view all file versions"
VersionsSelectPolicy(c, row) == AuthRole(c) = "authenticated"

\* "Authenticated users can create file versions"
VersionsInsertPolicy(c, row) == AuthRole(c) = "authenticated"

\* a policy that lets the creator of a version delete it
VersionsDeletePolicyCreator(c, row) == SqlEq(AuthUid(c), row.created_by)

\* row level security is enabled on file_versions and no UPDATE or DELETE
\* policy exists
VersionsUpdatePolicy(c, row) == FALSE
VersionsDeletePolicy(c, row) == FALSE

\* file_id and version_number are NOT NULL; the table has a primary key on id
\* and no other unique constraint
VersionsConstraints(row) == row.file_id # NULL

InsertVersion(c, row) ==
  IF VersionsInsertPolicy(c, row) /\ VersionsConstraints(row) THEN {row} ELSE {}

FileExts == {"png", "pdf"}

\* createNewVersion calls in flight
VersionsInFlight == Cardinality({c \in UserIds : ui[c].op.name = "createNewVersion"})

\* FileCollaboration is mounted for fileId by the client of c: versions = []
openFileCollaboration(c, fileId) ==
  /\ ui[c].op.name = "idle"
  /\ ui[c].fileId # fileId
  /\ ui' = [ui EXCEPT ![c].fileId = fileId, ![c].versions = {}]
  /\ last' = Outcome("openFileCollaboration", c, fileId, NULL, 0, "none", {})
  /\ UNCHANGED <<session, auth_users, profiles, jobs, job_files, file_comments, file_versions,
                 project_templates, objects, nextId>>

\* FileCollaboration.fetchVersions: an error is logged, not shown
fetchVersions(c, netError) ==
  /\ ui[c].fileId # NULL
  /\ LET data == {r \in file_versions :
                    r.file_id = ui[c].fileId /\ VersionsSelectPolicy(c, r)}
     IN /\ ui' = IF netError THEN ui ELSE [ui EXCEPT ![c].versions = data]
        /\ last' = Outcome("fetchVersions", c, ui[c].fileId, NULL, 0, "none",
                            IF netError THEN {} ELSE {r.id : r \in data})
  /\ UNCHANGED <<session, auth_users, profiles, jobs, job_files, file_comments, file_versions,
                 project_templates, objects, nextId>>

\* FileCollaboration.createNewVersion(file, changelog), lines 128-137: the
\* call reads the versions list of the render it was created in
createNewVersionStart(c, fileExt) ==
  /\ ui[c].op.name = "idle"
  /\ ui[c].fileId # NULL
  /\ nextId.file_versions + VersionsInFlight <= MaxVersions
  /\ ui' = [ui EXCEPT ![c].op =
              [Idle EXCEPT !.name = "createNewVersion", !.pc = "upload",
                           !.versions = ui[c].versions,
                           !.path = VersionPath(ui[c].fileId,
                                                Cardinality(ui[c].versions) + 1, fileExt)]]
  /\ last' = Outcome("createNewVersion.start", c, ui[c].fileId, NULL, 0, "none", {})
  /\ UNCHANGED <<session, auth_users, profiles, jobs, job_files, file_comments, file_versions,
                 project_templates, objects, nextId>>

\* lines 135-139: the blob of the version is uploaded
createNewVersionPut(c, netError) ==
  /\ ui[c].op.name = "createNewVersion" /\ ui[c].op.pc = "upload"
  /\ LET stored == IF netError THEN {} ELSE UploadObject(c, ui[c].op.path)
     IN /\ objects' = objects \cup stored
        /\ ui' = IF stored = {} THEN [ui EXCEPT ![c].op = Idle]
                 ELSE [ui EXCEPT ![c].op.pc = "insert"]
        /\ last' = [Outcome(IF stored = {} THEN "createNewVersion"
                                           ELSE "createNewVersion.upload",
                            c, ui[c].fileId, AuthUid(c), Cardinality(stored),
                            IF stored = {} THEN "error" ELSE "none", {})
                    EXCEPT !.path = ui[c].op.path]
  /\ UNCHANGED <<session, auth_users, profiles, jobs, job_files, file_comments, file_versions,
                 project_templates, nextId>>

\* lines 141-169: the version row is inserted with version_number
\* versions.length + 1 and the handler returns
createNewVersionInsert(c, netError) ==
  /\ ui[c].op.name = "createNewVersion" /\ ui[c].op.pc = "insert"
  /\ LET row == [id |-> Uuid("version", nextId.file_versions),
                 file_id |-> ui[c].fileId,
                 version_number |-> Cardinality(ui[c].op.versions) + 1,
                 file_path |-> ui[c].op.path, created_by |-> AuthUid(c)]
         stored == IF netError THEN {} ELSE InsertVersion(c, row)
     IN /\ file_versions' = file_versions \cup stored
        /\ nextId' = IF stored = {} THEN nextId
                     ELSE [nextId EXCEPT !.file_versions = @ + 1]
        /\ ui' = [ui EXCEPT ![c].op = Idle]
        /\ last' = [Outcome("createNewVersion", c, row.id, row.created_by,
                            Cardinality(stored), ToastOf(stored = {}), {})
                    EXCEPT !.path = row.file_path]
  /\ UNCHANGED <<session, auth_users, profiles, jobs, job_files, file_comments, project_templates, objects>>

\* update file_versions set version_number = ... where id = ..., sent directly
updateVersionRequest(c, id, version_number) ==
  LET matched == {r \in RowsWithId(file_versions, id) :
                    VersionsSelectPolicy(c, r) /\ VersionsUpdatePolicy(c, r)}
  IN /\ file_versions' = (file_versions \ matched) \cup
                           {[r EXCEPT !.version_number = version_number] : r \in matched}
     /\ last' = Outcome("file_versions.update", c, id,
                         OwnerOf(file_versions, id, "created_by"),
                         Cardinality(matched), "none", {})
     /\ UNCHANGED <<session, auth_users, profiles, jobs, job_files, file_comments,
                    project_templates, objects, nextId, ui>>

\* delete from file_versions where id = ..., sent directly
deleteVersionRequest(c, id) ==
  LET matched == {r \in RowsWithId(file_versions, id) :
                    VersionsSelectPolicy(c, r) /\ VersionsDeletePolicy(c, r)}
  IN /\ file_versions' = file_versions \ matched
     /\ last' = Outcome("file_versions.delete", c, id,
                         OwnerOf(file_versions, id, "created_by"),
                         Cardinality(matched), "none", {})
     /\ UNCHANGED <<session, auth_users, profiles, jobs, job_files, file_comments,
                    project_templates, objects, nextId, ui>>

VersionIds == {Uuid("version", n) : n \in 1..MaxVersions}

\* ======================================================= project_templates
\* the rows the second migration inserts: four public templates without created_by
SeedTemplates == 4

\* a policy that shows every template to every caller
TemplatesSelectPolicyAll(c, row) == TRUE

\* "All users can view public templates":
\* FOR SELECT USING (is_public = true OR auth.uid() = created_by)
TemplatesSelectPolicy(c, row) == row.is_public \/ SqlEq(AuthUid(c), row.created_by)

\* "Authenticated users can create templates"
TemplatesInsertPolicy(c, row) == AuthRole(c) = "authenticated"

\* "Users can update their own templates": FOR UPDATE USING (auth.uid() = created_by)
TemplatesUpdatePolicy(c, row) == SqlEq(AuthUid(c), row.created_by)

\* row level security is enabled and no DELETE policy exists for project_templates
TemplatesDeletePolicy(c, row) == FALSE

\* the templates a request names: a seeded one and the ones created later
TemplateIds == {Uuid("template", n) : n \in SeedTemplates..(SeedTemplates + MaxTemplates)}

\* the filters a select may carry: none, or .eq('is_public', false)
TemplateFilters == {"all", "private"}
MatchesFilter(filter, row) == filter = "all" \/ (filter = "private" /\ ~row.is_public)

\* select from project_templates issued by c: the rows returned
SelectTemplates(c, filter) ==
  {r \in project_templates : TemplatesSelectPolicy(c, r) /\ MatchesFilter(filter, r)}

InsertTemplate(c, row) == IF TemplatesInsertPolicy(c, row) THEN {row} ELSE {}

\* Templates.fetchTemplates, run by the client of c
fetchTemplates(c, netError) ==
  LET data == IF netError THEN {} ELSE SelectTemplates(c, "all")
  IN /\ ui' = IF netError THEN ui
              ELSE [ui EXCEPT ![c].templates = {r.id : r \in data}]
     /\ last' = [Outcome("fetchTemplates", c, NULL, NULL, 0,
                         IF netError THEN "error" ELSE "none", {r.id : r \in data})
                 EXCEPT !.value = "all"]
     /\ UNCHANGED <<session, auth_users, profiles, jobs, job_files, file_comments, file_versions,
                    project_templates, objects, nextId>>

\* a select sent to the storage layer directly, with a filter
selectTemplatesRequest(c, filter) ==
  /\ last' = [Outcome("project_templates.select", c, NULL, NULL, 0, "none",
                      {r.id : r \in SelectTemplates(c, filter)})
              EXCEPT !.value = filter]
  /\ UNCHANGED <<session, auth_users, profiles, jobs, job_files, file_comments, file_versions,
                 project_templates, objects, nextId, ui>>

\* Templates.createTemplate: is_public: true, created_by: user?.id
createTemplate(c, netError) ==
  /\ nextId.project_templates <= SeedTemplates + MaxTemplates
  /\ LET row == [id |-> Uuid("template", nextId.project_templates),
                 is_public |-> TRUE, created_by |-> AuthUid(c)]
         stored == IF netError THEN {} ELSE InsertTemplate(c, row)
     IN /\ project_templates' = project_templates \cup stored
        /\ nextId' = IF stored = {} THEN nextId
                     ELSE [nextId EXCEPT !.project_templates = @ + 1]
        /\ last' = Outcome("createTemplate", c, row.id, row.created_by,
                            Cardinality(stored), ToastOf(stored = {}), {})
  /\ UNCHANGED <<session, auth_users, profiles, jobs, job_files, file_comments, file_versions, objects, ui>>

\* Templates.useTemplate(template), template being the row with id templateId
\* of the list the client holds: a job is inserted from it
useTemplate(c, templateId, netError) ==
  /\ templateId \in ui[c].templates
  /\ nextId.jobs <= MaxJobs
  /\ LET row == [id |-> Uuid("job", nextId.jobs), created_by |-> AuthUid(c),
                 status |-> "pending"]
         stored == IF netError THEN {} ELSE InsertJob(c, row)
     IN /\ jobs' = jobs \cup stored
        /\ nextId' = IF stored = {} THEN nextId ELSE [nextId EXCEPT !.jobs = @ + 1]
        /\ last' = OutcomeOf("useTemplate", c, row.id, row.created_by,
                              Cardinality(stored), ToastOf(stored = {}), row.status)
  /\ UNCHANGED <<session, auth_users, profiles, job_files, file_comments, file_versions,
                 project_templates, objects, ui>>

\* an insert sent to the storage layer directly
insertTemplateRequest(c, created_by, is_public) ==
  /\ nextId.project_templates <= SeedTemplates + MaxTemplates
  /\ LET row == [id |-> Uuid("template", nextId.project_templates),
                 is_public |-> is_public, created_by |-> created_by]
         stored == InsertTemplate(c, row)
     IN /\ project_templates' = project_templates \cup stored
        /\ nextId' = IF stored = {} THEN nextId
                     ELSE [nextId EXCEPT !.project_templates = @ + 1]
        /\ last' = Outcome("project_templates.insert", c, row.id, row.created_by,
                            Cardinality(stored), "none", {})
  /\ UNCHANGED <<session, auth_users, profiles, jobs, job_files, file_comments, file_versions, objects, ui>>

\* update project_templates set is_public = ... where id = ..., sent directly
updateTemplateRequest(c, id, is_public) ==
  LET matched == {r \in RowsWithId(project_templates, id) :
                    TemplatesSelectPolicy(c, r) /\ TemplatesUpdatePolicy(c, r)}
  IN /\ project_templates' = (project_templates \ matched) \cup
                               {[r EXCEPT !.is_public = is_public] : r \in matched}
     /\ last' = [Outcome("project_templates.update", c, id,
                         OwnerOf(project_templates, id, "created_by"),
                         Cardinality(matched), "none", {})
                 EXCEPT !.value = IF is_public THEN "public" ELSE "private"]
     /\ UNCHANGED <<session, auth_users, profiles, jobs, job_files, file_comments, file_versions,
                    objects, nextId, ui>>

\* delete from project_templates where id = ..., sent directly
deleteTemplateRequest(c, id) ==
  LET matched == {r \in RowsWithId(project_templates, id) :
                    TemplatesSelectPolicy(c, r) /\ TemplatesDeletePolicy(c, r)}
  IN /\ project_templates' = project_templates \ matched
     /\ last' = Outcome("project_templates.delete", c, id,
                         OwnerOf(project_templates, id, "created_by"),
                         Cardinality(matched), "none", {})
     /\ UNCHANGED <<session, auth_users, profiles, jobs, job_files, file_comments, file_versions,
                    objects, nextId, ui>>

\* ------------------------------------------------------------------ Init
\* the database after both migrations and the sign-up of every identity: the
\* trigger has created one profile per identity, the seed its public templates
Init ==
  /\ auth_users = {AuthUser(n) : n \in 1..NumUsers}
  /\ profiles = {handle_new_user(AuthUser(n)) : n \in 1..NumUsers}
  /\ jobs = {}
  /\ job_files = {}
  /\ file_comments = {}
  /\ file_versions = {}
  /\ project_templates =
       {[id |-> Uuid("template", n), is_public |-> TRUE, created_by |-> NULL] :
          n \in 1..SeedTemplates}
  /\ objects = {}
  /\ nextId = [jobs |-> 1, job_files |-> 1, file_comments |-> 1,
               file_versions |-> 1, project_templates |-> SeedTemplates + 1,
               objects |-> 1]
  /\ last = NoRequest
  /\ ui = [c \in UserIds |-> [templates |-> {}, files |-> {}, uploading |-> FALSE,
                              input |-> 0, fileId |-> NULL, versions |-> {},
                              op |-> Idle, admin |-> AdminClosed]]
  /\ session = [loading |-> TRUE, user |-> NULL, route |-> "/", effect |-> TRUE]

\* ------------------------------------------------ the profile directory
NextProfiles ==
  \E c \in Callers, netError \in BOOLEAN :
    \/ \E u \in UserIds, r \in Roles : updateUserRole(c, u, r, netError)
    \/ \E n \in FullNames : updateProfile(c, n, netError)
    \/ \E u \in UserIds : deleteUser(c, u, netError)

SpecProfiles == Init /\ [][NextProfiles]_vars

\* ------------------------------------------------------- the Index page
\* a render that tests only loading
IndexViewLoadingOnly(loading, user) ==
  IF loading THEN "Loader" ELSE "Dashboard"

\* Index's render, lines 19-42, of the values useAuth() returned
IndexView(loading, user) ==
  IF loading THEN "Loader"
  ELSE IF user = NULL THEN "null"
  ELSE "Dashboard"

\* the identity whose requests the tab sends
SessionCaller == IF session.user = NULL THEN ANON ELSE session.user

\* the Identity Provider's session-change notification reaches useAuth: the
\* session now holds identity u, or none; React runs a pending effect before
\* it renders the next state
sessionChange(u) ==
  /\ ~session.effect
  /\ session.loading \/ u # session.user
  /\ session' = [session EXCEPT !.loading = FALSE, !.user = u,
                                !.effect = (session.route = "/")]
  /\ UNCHANGED <<auth_users, profiles, jobs, job_files, file_comments, file_versions,
                 project_templates, objects, nextId, last, ui>>

\* Index's effect, lines 13-17, after the render in which user or loading changed
IndexEffect ==
  /\ session.route = "/" /\ session.effect
  /\ session' = [session EXCEPT
                   !.route = IF ~session.loading /\ session.user = NULL
                               THEN "/auth" ELSE "/",
                   !.effect = FALSE]
  /\ UNCHANGED <<auth_users, profiles, jobs, job_files, file_comments, file_versions,
                 project_templates, objects, nextId, last, ui>>

\* the tab goes from /auth back to /: Index mounts and its effect is to run
openIndex ==
  /\ session.route = "/auth"
  /\ session' = [session EXCEPT !.route = "/", !.effect = TRUE]
  /\ UNCHANGED <<auth_users, profiles, jobs, job_files, file_comments, file_versions,
                 project_templates, objects, nextId, last, ui>>

\* Dashboard's handlers run while Index renders the Dashboard
NextIndex ==
  \/ \E u \in UserIds \cup {NULL} : sessionChange(u)
  \/ IndexEffect
  \/ openIndex
  \/ /\ session.route = "/"
     /\ IndexView(session.loading, session.user) = "Dashboard"
     /\ \/ createJob(SessionCaller, FALSE)
        \/ \E j \in JobIds, st \in Statuses : updateJob(SessionCaller, j, st, FALSE)
        \/ \E j \in JobIds : deleteJob(SessionCaller, j, FALSE)

SpecIndex == Init /\ [][NextIndex]_vars /\ WF_vars(IndexEffect)

\* ------------------------------------------------------ the admin panel
\* the Edit and Delete buttons are part of the user-management view
NextAdmin ==
  \E c \in UserIds :
    \/ openAdminPanel(c)
    \/ closeAdminPanel(c)
    \/ \E netError \in BOOLEAN : fetchUsers(c, netError)
    \/ \E u \in UserIds, r \in Roles, netError \in BOOLEAN :
         /\ AdminPanelView(c) = "User Management"
         /\ ui[c].admin.fetches < MaxFetches
         /\ updateUserRole(c, u, r, netError)
    \/ \E u \in UserIds, netError \in BOOLEAN :
         /\ AdminPanelView(c) = "User Management"
         /\ ui[c].admin.fetches < MaxFetches
         /\ deleteUser(c, u, netError)

SpecAdmin == Init /\ [][NextAdmin]_vars

\* ------------------------------------------- sign-up and the directory
NextSignUp ==
  \/ \E id \in NewUserIds, e \in SignUpEmails, m \in MetaFullNames : signUp(id, e, m)
  \/ \E c \in UserIds :
       \/ \E r \in Roles : updateUserRole(c, c, r, FALSE)
       \/ \E u \in UserIds \cup NewUserIds : deleteUser(c, u, FALSE)

SpecSignUp == Init /\ [][NextSignUp]_vars

\* ------------------------------------------------------------ the jobs table
NextJobs ==
  \E c \in Callers, netError \in BOOLEAN :
    \/ createJob(c, netError)
    \/ \E o \in UserIds \cup {NULL}, st \in Statuses : insertJobRequest(c, o, st)
    \/ \E j \in JobIds, st \in Statuses : updateJob(c, j, st, netError)
    \/ \E j \in JobIds : deleteJob(c, j, netError)

SpecJobs == Init /\ [][NextJobs]_vars

\* ------------------------------------------------- the status of a job
\* the values the status select of the edit form offers, and one it does not
StatusInputs == Statuses \cup {"archived"}

NextStatus ==
  \/ \E c \in UserIds :
       \/ createJob(c, FALSE)
       \/ fetchTemplates(c, FALSE)
       \/ \E j \in JobIds, st \in StatusInputs : updateJob(c, j, st, FALSE)
  \/ \E c \in UserIds, netError \in BOOLEAN : useTemplate(c, Uuid("template", 1), netError)

SpecStatus == Init /\ [][NextStatus]_vars

\* ------------------------------------------------- files and their blobs
MaxBatch == 2

NextFiles ==
  \/ \E c \in UserIds, netError \in BOOLEAN :
       \/ createJob(c, netError)
       \/ \E j \in JobIds : fetchFiles(c, j, netError)
       \/ handleFileUploadPut(c, netError)
       \/ handleFileUploadInsert(c, FALSE, netError)
       \/ deleteFileRemove(c, netError)
       \/ deleteFileDelete(c, netError)
  \/ \E c \in UserIds :
       \/ \E j \in JobIds, n \in 1..MaxBatch : handleFileUploadStart(c, j, n)
       \/ \E f \in FileIds : deleteFileStart(c, f)

SpecFiles == Init /\ [][NextFiles]_vars

\* ------------------------------------------------------ the uploads
\* Every request a handler awaits is answered, with a result or an error.
NextUpload ==
  \/ \E netError \in BOOLEAN : createJob(Uploader, netError)
  \/ \E c \in UserIds, netError \in BOOLEAN : handleFileUploadPut(c, netError)
  \/ \E c \in UserIds, netError \in BOOLEAN : handleFileUploadInsert(c, FALSE, netError)
  \/ \E c \in UserIds, j \in JobIds, n \in 1..MaxBatch : handleFileUploadStart(c, j, n)

SpecUpload ==
  /\ Init /\ [][NextUpload]_vars
  /\ \A c \in UserIds :
       /\ WF_vars(\E netError \in BOOLEAN : handleFileUploadPut(c, netError))
       /\ WF_vars(\E netError \in BOOLEAN : handleFileUploadInsert(c, FALSE, netError))

\* ------------------------------------- deleting a job that has files
\* the uploads of one client, of one file or several, run while every client
\* creates and deletes jobs
NextCascade ==
  \/ \E c \in UserIds, netError \in BOOLEAN :
       \/ createJob(c, netError)
       \/ \E j \in JobIds : deleteJob(c, j, netError)
  \/ \E netError \in BOOLEAN :
       \/ handleFileUploadPut(Uploader, netError)
       \/ handleFileUploadInsert(Uploader, FALSE, netError)
  \/ \E j \in JobIds, n \in 1..MaxBatch : handleFileUploadStart(Uploader, j, n)

SpecCascade == Init /\ [][NextCascade]_vars

\* --------------------------------------- the blobs of a deleted job's files
ObjectNames == {OriginalPath(j, n) : j \in JobIds, n \in 1..MaxFiles}

NextDownload ==
  \/ \E c \in UserIds, netError \in BOOLEAN :
       \/ createJob(c, netError)
       \/ \E j \in JobIds : deleteJob(c, j, netError)
       \/ \E j \in JobIds : fetchFiles(c, j, netError)
       \/ handleFileUploadPut(c, netError)
       \/ handleFileUploadInsert(c, FALSE, netError)
       \/ \E f \in FileIds : downloadFile(c, f, netError)
  \/ \E c \in UserIds, j \in JobIds, n \in 1..MaxBatch : handleFileUploadStart(c, j, n)
  \/ \E c \in Callers, path \in ObjectNames : downloadObjectRequest(c, path)

SpecDownload == Init /\ [][NextDownload]_vars

\* ------------------------------ mutations by clients that are not the owner
\* The Dashboard and the JobFiles list offer update, delete and the
\* presentation toggle for every row, whoever owns it.
NextDenied ==
  \/ \E c \in UserIds, netError \in BOOLEAN :
       \/ createJob(c, netError)
       \/ \E j \in JobIds, st \in Statuses : updateJob(c, j, st, netError)
       \/ \E j \in JobIds : deleteJob(c, j, netError)
       \/ \E j \in JobIds : fetchFiles(c, j, netError)
       \/ \E f \in FileIds : togglePresentation(c, f, netError)
  \/ \E netError \in BOOLEAN :
       \/ handleFileUploadPut(Uploader, netError)
       \/ handleFileUploadInsert(Uploader, FALSE, netError)
  \/ \E j \in JobIds : handleFileUploadStart(Uploader, j, 1)

SpecDenied == Init /\ [][NextDenied]_vars

\* ----------------------------- comments and versions of a file that goes
\* FileCollaboration is opened for files that exist; the file is then deleted
\* by its uploader or goes with its job.
FileExists(fileId) == RowsWithId(job_files, fileId) # {}

NextOutlive ==
  \/ \E c \in UserIds :
       \/ createJob(c, FALSE)
       \/ \E j \in JobIds : deleteJob(c, j, FALSE)
       \/ \E f \in FileIds : FileExists(f) /\ addComment(c, f, FALSE)
  \/ \E j \in JobIds : handleFileUploadStart(Uploader, j, 1)
  \/ handleFileUploadPut(Uploader, FALSE)
  \/ handleFileUploadInsert(Uploader, FALSE, FALSE)
  \/ \E j \in JobIds : fetchFiles(Uploader, j, FALSE)
  \/ \E f \in FileIds : deleteFileStart(Uploader, f)
  \/ deleteFileRemove(Uploader, FALSE)
  \/ deleteFileDelete(Uploader, FALSE)
  \/ \E f \in FileIds : FileExists(f) /\ openFileCollaboration(Uploader, f)
  \/ fetchVersions(Uploader, FALSE)
  \/ createNewVersionStart(Uploader, "png")
  \/ createNewVersionPut(Uploader, FALSE)
  \/ createNewVersionInsert(Uploader, FALSE)

SpecOutlive == Init /\ [][NextOutlive]_vars

\* ------------------------------- requests on job_files and file_comments
\* Rows are inserted with the caller as owner and no job (job_id is nullable);
\* every caller, signed in or not, then sends updates and deletes for them.
RowIds == {Uuid("file", n) : n \in 1..MaxRows}

NextRows ==
  \/ \E c \in UserIds, netError \in BOOLEAN :
       addComment(c, Uuid("file", 1), netError)
  \/ \E c \in Callers :
       \/ \E o \in {AuthUid(c)} : insertFileRequest(c, NULL, o, FALSE)
       \/ \E f \in RowIds, pres \in BOOLEAN : updateFileRequest(c, f, pres)
       \/ \E f \in RowIds : deleteFileRequest(c, f)
       \/ \E m \in CommentIds, t \in CommentTexts : updateCommentRequest(c, m, t)
       \/ \E m \in CommentIds : deleteCommentRequest(c, m)

SpecRows == Init /\ [][NextRows]_vars

\* --------------------------------------------------------- file versions
NextVersions ==
  \/ \E c \in UserIds, netError \in BOOLEAN :
       \/ fetchVersions(c, netError)
       \/ createNewVersionPut(c, netError)
       \/ createNewVersionInsert(c, netError)
  \/ \E c \in UserIds :
       \/ \E f \in FileIds : openFileCollaboration(c, f)
       \/ \E e \in FileExts : createNewVersionStart(c, e)

SpecVersions == Init /\ [][NextVersions]_vars

\* ----------------------------------- requests on the rows of file_versions
\* The versions of one file, the first row of job_files, are created by one
\* client; every caller then sends updates (to a version_number no client
\* computes) and deletes for them, and deletes for the row of the file.
NextAppend ==
  \/ \E netError \in BOOLEAN :
       \/ fetchVersions(Uploader, netError)
       \/ createNewVersionPut(Uploader, netError)
       \/ createNewVersionInsert(Uploader, netError)
  \/ openFileCollaboration(Uploader, Uuid("file", 1))
  \/ createNewVersionStart(Uploader, "png")
  \/ insertFileRequest(Uploader, NULL, Uploader, FALSE)
  \/ \E c \in Callers :
       \/ \E v \in VersionIds : updateVersionRequest(c, v, 0)
       \/ \E v \in VersionIds : deleteVersionRequest(c, v)
       \/ \E f \in RowIds : deleteFileRequest(c, f)

SpecAppend == Init /\ [][NextAppend]_vars

\* --------------------------------- one client creating versions in a row
NextSequential ==
  \/ openFileCollaboration(Uploader, Uuid("file", 1))
  \/ \E e \in FileExts : createNewVersionStart(Uploader, e)
  \/ \E netError \in BOOLEAN :
       \/ fetchVersions(Uploader, netError)
       \/ createNewVersionPut(Uploader, netError)
       \/ createNewVersionInsert(Uploader, netError)

SpecSequential == Init /\ [][NextSequential]_vars

\* ------------------------------------------------------ the templates table
NextTemplates ==
  \/ \E c \in UserIds, netError \in BOOLEAN :
       \/ fetchTemplates(c, netError)
       \/ createTemplate(c, netError)
  \/ \E c \in Callers :
       \/ \E f \in TemplateFilters : selectTemplatesRequest(c, f)
       \/ \E o \in UserIds \cup {NULL}, pub \in BOOLEAN : insertTemplateRequest(c, o, pub)
       \/ \E t \in TemplateIds, pub \in BOOLEAN : updateTemplateRequest(c, t, pub)
       \/ \E t \in TemplateIds : deleteTemplateRequest(c, t)

SpecTemplates == Init /\ [][NextTemplates]_vars

\* =================================================================== claims
\* the request reached the storage layer and no error came back
Answered(o) == o.toast # "error"

InsertOps == {"createJob", "jobs.insert", "job_files.insert", "addComment",
              "file_comments.insert"}

\* C1: an update or delete of a Job takes effect exactly when the caller is
\* its created_by.  Every step by a caller other than the creator leaves the
\* Job in the table with its fields unchanged; the creator's updateJob stores
\* the new status and the creator's deleteJob removes the row.
C1_JobMutatedOnlyByCreator ==
  [][\A j \in jobs :
       /\ last'.caller # j.created_by => j \in jobs'
       /\ ( /\ last'.op = "updateJob" /\ last'.target = j.id
            /\ Answered(last') /\ last'.caller = j.created_by )
          => [j EXCEPT !.status = last'.value] \in jobs'
       /\ ( /\ last'.op = "deleteJob" /\ last'.target = j.id
            /\ Answered(last') /\ last'.caller = j.created_by )
          => RowsWithId(jobs', j.id) = {}
       /\ (last'.op \in {"updateJob", "deleteJob"} /\ last'.target = j.id /\ Answered(last'))
          => (last'.affected = 1 <=> last'.caller = j.created_by)
    ]_vars

\* C1 witness: a completed Job survives a non-creator's updateJob to pending
C1_Witness ==
  \E j \in jobs :
    /\ last.op = "updateJob" /\ last.target = j.id /\ Answered(last)
    /\ last.caller \in UserIds /\ j.created_by \in UserIds
    /\ last.caller # j.created_by
    /\ j.status = "completed" /\ last.value = "pending"

\* C2: the owner field an insert stores is the identity of the caller
C2_OwnerForcedToCaller ==
  (last.op \in InsertOps /\ last.affected = 1) => last.owner = last.caller

\* C3: a Profile's role changes only in a step whose caller has role admin
C3_RoleChangedOnlyByAdmin ==
  [][\A u \in UserIds : RoleOf(u)' # RoleOf(u) => last'.callerRole = "admin"]_vars

\* C4: an admin's updateUserRole on another identity's Profile is applied
C4_AdminRoleUpdateApplied ==
  ( /\ last.op = "updateUserRole" /\ Answered(last)
    /\ last.callerRole = "admin" /\ last.target # last.caller )
  => RoleOf(last.target) = last.value

\* C5: an update or delete of a JobFile or Comment takes effect exactly when
\* the caller is the row's owner (uploaded_by, user_id): a request by anyone
\* else leaves the row in the table unchanged, the owner's update stores the
\* new value and the owner's delete removes the row
C5_FileAndCommentMutatedOnlyByOwner ==
  [][/\ \A f \in job_files :
          (last'.op \in {"job_files.update", "job_files.delete"} /\ last'.target = f.id) =>
            /\ last'.affected = 1 <=> last'.caller = f.uploaded_by
            /\ last'.caller # f.uploaded_by => f \in job_files'
            /\ (last'.caller = f.uploaded_by /\ last'.op = "job_files.update") =>
                 [f EXCEPT !.is_presentation = (last'.value = "presentation")]
                   \in job_files'
            /\ (last'.caller = f.uploaded_by /\ last'.op = "job_files.delete") =>
                 RowsWithId(job_files', f.id) = {}
     /\ \A m \in file_comments :
          (last'.op \in {"file_comments.update", "file_comments.delete"}
             /\ last'.target = m.id) =>
            /\ last'.affected = 1 <=> last'.caller = m.user_id
            /\ last'.caller # m.user_id => m \in file_comments'
            /\ (last'.caller = m.user_id /\ last'.op = "file_comments.update") =>
                 [m EXCEPT !.comment = last'.value] \in file_comments'
            /\ (last'.caller = m.user_id /\ last'.op = "file_comments.delete") =>
                 RowsWithId(file_comments', m.id) = {}
    ]_vars

\* C5 witness: a JobFile marked as presentation by its uploader has survived
\* the delete request of another signed-in caller, while a Comment exists
C5_Witness ==
  /\ last.op = "job_files.delete" /\ last.caller \in UserIds /\ last.affected = 0
  /\ \E f \in job_files :
       /\ f.id = last.target /\ f.uploaded_by \in UserIds
       /\ f.uploaded_by # last.caller /\ f.is_presentation
  /\ file_comments # {}

\* C6: a select never returns a private Template to a caller other than its
\* creator, whatever the filter, and returns every public Template the filter
\* matches to every caller
C6_PrivateTemplatesHidden ==
  (last.op \in {"fetchTemplates", "project_templates.select"} /\ Answered(last)) =>
    \A t \in project_templates :
      /\ (t.id \in last.rows /\ ~t.is_public) => t.created_by = last.caller
      /\ (t.is_public /\ MatchesFilter(last.value, t)) => t.id \in last.rows

\* C6 witness: a select by a caller who is not the creator of a private
\* Template that exists, which returns the public ones only
C6_Witness ==
  /\ last.op = "project_templates.select" /\ last.value = "all"
  /\ \E t \in project_templates :
        /\ ~t.is_public /\ t.created_by \in UserIds /\ t.created_by # last.caller
        /\ t.id \notin last.rows
  /\ last.rows # {}

\* C7: an update or delete of a Template takes effect exactly when the caller
\* is its created_by
C7_TemplateMutatedIffCreator ==
  (last.op \in {"project_templates.update", "project_templates.delete"}) =>
    (last.affected = 1 <=> last.caller = last.owner)

\* C8: no two FileVersion rows of one file carry the same version_number
C8_VersionNumbersDistinct ==
  \A v \in file_versions, w \in file_versions :
    (v.file_id = w.file_id /\ v.version_number = w.version_number) => v.id = w.id

\* C9: when deleteFile has returned, the metadata row of the file exists
\* exactly when its blob exists
C9_RowAndBlobConsistentAfterDelete ==
  last.op = "deleteFile" =>
    (RowsWithId(job_files, last.target) # {} <=> ObjectsNamed(last.path) # {})

\* C10: the leading segment of every stored object name is the identity that
\* uploaded it, and a deleteFile that the uploader ran without error has
\* removed the blob
C10_LeadingSegmentIsUploader ==
  /\ \A o \in objects : LeadingSegment(o.name) = o.owner
  /\ (last.op = "deleteFile" /\ Answered(last) /\ last.caller = last.owner)
       => ObjectsNamed(last.path) = {}

C14_OneProfilePerIdentity ==
  /\ \A u \in auth_users : Cardinality(RowsWithId(profiles, u.id)) = 1
  /\ \A p \in profiles : \E u \in auth_users : u.id = p.id

\* C14 witness: a second first-authentication of an identity that exists was
\* refused, with an email no identity has
C14_Witness ==
  /\ last.op = "signUp" /\ last.affected = 0
  /\ \E u \in auth_users : u.id = last.target /\ u.id \in NewUserIds
  /\ \A u \in auth_users : u.email # last.value

\* the Profile the bootstrap has to create for the identity u
ExpectedProfile(u, p) ==
  /\ p.id = u.id /\ p.email = u.email
  /\ p.role = "admin" <=> u.email \in AdminEmails
  /\ p.role = "user" <=> u.email \notin AdminEmails
  /\ p.full_name = IF u.meta_full_name # "absent" THEN u.meta_full_name ELSE u.email

\* C15: a Profile that appears in a step is the one expected for its
\* identity: role admin exactly for an allowlisted email and user otherwise
\* (never moderator), full_name from the metadata or else the email
C15_RoleAndNameAtCreation ==
  [][\A p \in profiles' :
       RowsWithId(profiles, p.id) = {} =>
         \E u \in auth_users' : ExpectedProfile(u, p)
    ]_vars

\* C15 witness: an identity with an allowlisted email and no full_name in its
\* metadata has signed up and is admin, named by its email
C15_Witness ==
  /\ last.op = "signUp" /\ last.affected = 1 /\ last.value \in AdminEmails
  /\ \E p \in profiles :
       /\ p.id = last.target /\ p.role = "admin" /\ p.full_name = last.value
  /\ \E p \in profiles : p.id \in NewUserIds /\ p.role = "user"

\* C11: no JobFile names a Job that does not exist, and after a deleteJob
\* that deleted the Job no JobFile with its id is left
C11_NoFileOfDeletedJob ==
  /\ \A f \in job_files : f.job_id = NULL \/ \E j \in jobs : j.id = f.job_id
  /\ (last.op = "deleteJob" /\ last.affected = 1) =>
       \A f \in job_files : f.job_id # last.target

\* C11 witness: a Job was deleted after a file had been uploaded to it, while
\* another upload to it is under way
C11_Witness ==
  /\ last.op = "deleteJob" /\ last.affected = 1
  /\ nextId.job_files > 1 /\ job_files = {}
  /\ \E c \in UserIds : ui[c].op.name = "handleFileUpload" /\ ui[c].op.job = last.target

\* path was the file_path of a JobFile (a client has listed it) whose Job
\* exists no more
OfDeletedJob(path) ==
  \E c \in UserIds : \E f \in ui[c].files :
    f.file_path = path /\ f.job_id \notin {j.id : j \in jobs}

\* C12: a download of a blob that belonged to a file of a deleted Job fails,
\* for the client that still lists the file and for every other caller
C12_BlobsOfDeletedJobUnreachable ==
  (last.op \in {"downloadFile", "objects.download"} /\ OfDeletedJob(last.path)) =>
    (last.affected = 0 /\ last.toast # "success")

\* C16: a FileVersion row, once stored, is in the table with the same fields
\* in every later state; an update or delete request on it changes nothing,
\* whoever sends it
C16_VersionsAppendOnly ==
  [][/\ \A v \in file_versions : v \in file_versions'
     /\ last'.op \in {"file_versions.update", "file_versions.delete"} =>
          (last'.affected = 0 /\ file_versions' = file_versions)
    ]_vars

\* C16 witness: the creator of a version sent a delete for it after the row
\* of its file was deleted, and the version is still there
C16_Witness ==
  /\ last.op = "file_versions.delete" /\ last.caller = last.owner
  /\ \E v \in file_versions : v.id = last.target /\ v.file_id = Uuid("file", 1)
  /\ nextId.job_files > 1 /\ job_files = {}

\* C17: updateJob, deleteJob and togglePresentation run by a client other
\* than the owner of the row end with the error notification
C17_DeniedMutationReportsError ==
  ( /\ last.op \in {"updateJob", "deleteJob", "togglePresentation"}
    /\ last.owner \in UserIds /\ last.caller # last.owner )
  => last.toast = "error"

\* owner is the id of an identity that exists
NamesIdentity(owner) == \E u \in auth_users : u.id = owner

\* C18: every Job, JobFile, Comment and Template row carries an owner that is
\* the id of an existing identity
C18_EveryRowHasOwner ==
  /\ \A j \in jobs : NamesIdentity(j.created_by)
  /\ \A f \in job_files : NamesIdentity(f.uploaded_by)
  /\ \A m \in file_comments : NamesIdentity(m.user_id)
  /\ \A t \in project_templates : NamesIdentity(t.created_by)

\* a step of the version handlers of client c in which the call to the
\* storage layer or the object store fails
FailedVersionCall(c) ==
  \/ fetchVersions(c, TRUE)
  \/ createNewVersionPut(c, TRUE)
  \/ createNewVersionInsert(c, TRUE)

\* C19: a handler step whose storage-layer or object-store call fails ends
\* with the error notification
C19_FailuresAreShown ==
  [][\A c \in UserIds : FailedVersionCall(c) => last'.toast = "error"]_vars

\* C20: while files of a handleFileUpload batch remain after the current one,
\* a step of the handler, failed or not, leaves the handler running
C20_BatchContinuesAfterFailure ==
  [][\A c \in UserIds :
       ( /\ ui[c].op.name = "handleFileUpload" /\ ui[c].op.todo > 1
         /\ ui'[c].op # ui[c].op )
       => ui'[c].op.name = "handleFileUpload"
    ]_vars

\* C21: a client whose handleFileUpload is not running has uploading = false
\* and an empty file input, and uploading = true always leads to
\* uploading = false
C21_UploadingAlwaysReset ==
  /\ [](\A c \in UserIds :
          ui[c].op.name # "handleFileUpload" => (~ui[c].uploading /\ ui[c].input = 0))
  /\ \A c \in UserIds : ui[c].uploading ~> ~ui[c].uploading

\* C21 witness: a batch of two files has ended with the error notification
\* after the blob of the first file was stored
C21_Witness ==
  /\ last.op = "handleFileUpload" /\ last.toast = "error" /\ last.caller = Uploader
  /\ ObjectsNamed(last.path) # {} /\ job_files = {}
  /\ ~ui[Uploader].uploading /\ ui[Uploader].input = 0

\* the FileVersion rows of a file in the table t
VersionsOf(t, fileId) == {w \in t : w.file_id = fileId}

\* C22: a FileVersion row that a step stores carries the number of rows its
\* file already had plus one, which is greater than each of their numbers
C22_VersionNumberIsCountPlusOne ==
  [][\A v \in file_versions' \ file_versions :
       /\ v.version_number = Cardinality(VersionsOf(file_versions, v.file_id)) + 1
       /\ \A w \in VersionsOf(file_versions, v.file_id) :
            w.version_number < v.version_number
    ]_vars

C24_ButtonsMirrorPolicies ==
  \A c \in UserIds : \A file \in ui[c].files : \A row \in RowsWithId(job_files, file.id) :
    /\ OffersToggle(c, file) <=> FilesUpdatePolicy(c, row)
    /\ FilesDeletePolicy(c, row) => OffersDelete(c, file)
    /\ OffersDelete(c, file) =>
         /\ FilesDeletePolicy(c, row)
         /\ \A o \in ObjectsNamed(row.file_path) : ObjectsDeletePolicy(c, o)

\* C25: when handleFileUpload has ended with an error, the blob of the file
\* it was working on, if stored, has a JobFile row whose file_path names it
C25_NoOrphanBlobAfterUpload ==
  (last.op = "handleFileUpload" /\ last.toast = "error") =>
    \A o \in ObjectsNamed(last.path) : \E f \in job_files : f.file_path = o.name

\* C27: a togglePresentation that changes the row stores the opposite of the
\* flag the row had
C27_ToggleFlipsStoredValue ==
  [][\A f \in job_files :
       ( /\ last'.op = "togglePresentation" /\ last'.target = f.id
         /\ last'.affected = 1 )
       => [f EXCEPT !.is_presentation = ~f.is_presentation] \in job_files'
    ]_vars

\* C28: deleteUser shows the success notification only when the Profile it
\* named exists no more
C28_DeleteUserSuccessMeansGone ==
  (last.op = "deleteUser" /\ last.toast = "success") =>
    RowsWithId(profiles, last.target) = {}

\* C26: the file_id of every Comment and of every FileVersion is the id of
\* a JobFile row that exists
C26_NoCommentOrVersionWithoutFile ==
  /\ \A m \in file_comments : RowsWithId(job_files, m.file_id) # {}
  /\ \A v \in file_versions : RowsWithId(job_files, v.file_id) # {}

\* C29: a mounted AdminPanel shows the user-management view only when the
\* fetched Profile of its user has role admin, it never shows Access Denied
\* to a user whose Profile has role admin, and while the list is loading it
\* shows the loading placeholder
C29_AdminNeverDenied ==
  \A c \in UserIds :
    ui[c].admin.open =>
      /\ AdminPanelView(c) = "User Management" =>
           \E u \in ui[c].admin.users : u.id = AuthUid(c) /\ u.role = "admin"
      /\ RoleOf(c) = "admin" =>
           /\ AdminPanelView(c) # "Access Denied"
           /\ ui[c].admin.loading => AdminPanelView(c) = "loading"

\* C30: Index shows the loader while the session is loading, the Dashboard
\* only with loading false and a user present, and nothing once loading has
\* finished with no user, and then the tab is eventually sent to /auth
C30_DashboardOnlyWithUser ==
  /\ [](session.route = "/" =>
          LET view == IndexView(session.loading, session.user)
          IN /\ session.loading => view = "Loader"
             /\ view = "Dashboard" => ~session.loading /\ session.user # NULL
             /\ ~session.loading /\ session.user = NULL => view = "null")
  /\ [](last.op \in {"createJob", "updateJob", "deleteJob"} =>
          last.caller \in UserIds)
  /\ (session.route = "/" /\ ~session.loading /\ session.user = NULL)
       ~> (session.route = "/auth")

\* C30 witness: the Dashboard was rendered and used, the user then signed out
\* and the tab was sent to /auth
C30_Witness ==
  /\ session.route = "/auth" /\ ~session.loading /\ session.user = NULL
  /\ last.op = "createJob" /\ last.caller \in UserIds

====
